---- MODULE Spec2Model ----
(***************************************************************************)
(* News aggregation server (src/index.js): the ingestion job               *)
(* fetchAndStoreNews, which upserts the feed's articles into the Article    *)
(* collection, and the read API over that collection.                      *)
(*                                                                         *)
(* Strings that the code converts (trim, toLowerCase, split, parseInt) are *)
(* sequences of one-character strings; strings that are only copied or     *)
(* compared are TLA+ strings.                                              *)
(***************************************************************************)
EXTENDS Integers, Sequences, FiniteSets, TLC

\* ------------------------------------------------------------------ bounds
\* Concurrent invocations of fetchAndStoreNews (a finished one can be
\* triggered again, so the number of runs is unbounded).
MaxRuns == 2
\* Longest "results" array the feed returns, to overlapping runs and to
\* runs in sequence.
MaxBatch == 2
MaxSeqBatch == 3
\* Last millisecond of the clock that stamps updatedAt.
MaxClock == 1

Runs == 1..MaxRuns

\* ------------------------------------------------------------ JS values
UNDEF == "undefined"
\* pubDate: null (null sorts below every date in the store)
NullDate == 0
\* new Date(s) of a string that is no date: Invalid Date
InvalidDate == -1

us == <<"u", "s">>
uk == <<"u", "k">>
fr == <<"f", "r">>
tech == <<"t", "e", "c", "h">>
ai == <<"a", "i">>
news == <<"n", "e", "w", "s">>
blog == <<"b", "l", "o", "g">>

\* ------------------------------------------------------------ JS strings
Lower == <<"a", "b", "c", "d", "e", "f", "g", "h", "i", "j", "k", "l", "m",
           "n", "o", "p", "q", "r", "s", "t", "u", "v", "w", "x", "y", "z">>
Upper == <<"A", "B", "C", "D", "E", "F", "G", "H", "I", "J", "K", "L", "M",
           "N", "O", "P", "Q", "R", "S", "T", "U", "V", "W", "X", "Y", "Z">>
Digits == <<"0", "1", "2", "3", "4", "5", "6", "7", "8", "9">>

Range(f) == {f[i] : i \in DOMAIN f}

IndexOf(seq, c) == CHOOSE i \in 1..Len(seq) : seq[i] = c

\* The UTF-16 code unit of a character.
CharCode(c) ==
    CASE c \in Range(Lower) -> 96 + IndexOf(Lower, c)
      [] c \in Range(Upper) -> 64 + IndexOf(Upper, c)
      [] c \in Range(Digits) -> 47 + IndexOf(Digits, c)
      [] c = " " -> 32
      [] c = "+" -> 43
      [] c = "," -> 44
      [] c = "-" -> 45
      [] OTHER -> 63

\* String.prototype.toLowerCase
ToLowerCase(s) ==
    [i \in 1..Len(s) |->
        IF s[i] \in Range(Upper) THEN Lower[IndexOf(Upper, s[i])] ELSE s[i]]

RECURSIVE TrimStart(_)
TrimStart(s) == IF s # <<>> /\ Head(s) = " " THEN TrimStart(Tail(s)) ELSE s

RECURSIVE TrimEnd(_)
TrimEnd(s) ==
    IF s # <<>> /\ s[Len(s)] = " " THEN TrimEnd(SubSeq(s, 1, Len(s) - 1)) ELSE s

\* String.prototype.trim
Trim(s) == TrimEnd(TrimStart(s))

\* String.prototype.split(sep), sep one character: the pieces between the
\* separators ("" gives one empty piece).
RECURSIVE Split(_, _)
Split(s, sep) ==
    IF \A i \in 1..Len(s) : s[i] # sep THEN <<s>>
    ELSE LET i == CHOOSE j \in 1..Len(s) :
                      s[j] = sep /\ \A k \in 1..(j - 1) : s[k] # sep
         IN  <<SubSeq(s, 1, i - 1)>> \o Split(SubSeq(s, i + 1, Len(s)), sep)

\* The comparison Array.prototype.sort() makes: by code units.
RECURSIVE StrLess(_, _)
StrLess(a, b) ==
    IF a = <<>> THEN b # <<>>
    ELSE IF b = <<>> THEN FALSE
    ELSE IF Head(a) # Head(b) THEN CharCode(Head(a)) < CharCode(Head(b))
    ELSE StrLess(Tail(a), Tail(b))

\* JS numbers: the integers and NaN.
NaN == -1000

RECURSIVE DigitsValue(_, _)
DigitsValue(s, acc) ==
    IF s # <<>> /\ Head(s) \in Range(Digits)
    THEN DigitsValue(Tail(s), 10 * acc + (IndexOf(Digits, Head(s)) - 1))
    ELSE acc

\* parseInt(s): leading white space is skipped, then an optional sign and
\* the longest run of digits; NaN when there is no digit.
ParseInt(s) ==
    LET t == TrimStart(s)
        neg == t # <<>> /\ Head(t) = "-"
        u == IF t # <<>> /\ Head(t) \in {"-", "+"} THEN Tail(t) ELSE t
    IN  IF u = <<>> \/ Head(u) \notin Range(Digits) THEN NaN
        ELSE IF neg THEN 0 - DigitsValue(u, 0) ELSE DigitsValue(u, 0)

\* a * b and a - b on JS numbers.
Times(a, b) == IF a = NaN \/ b = NaN THEN NaN ELSE a * b

Minus(a, b) == IF a = NaN \/ b = NaN THEN NaN ELSE a - b

\* Math.ceil(a / b), for a >= 0 and b > 0, or NaN.
CeilDiv(a, b) == IF a = NaN \/ b = NaN THEN NaN ELSE (a + b - 1) \div b

\* ------------------------------------------------------------- the feed
\* Elements of response.data.results.  A key the feed omits is not in the
\* record's DOMAIN (art.key is then undefined).
ArtFull == [article_id |-> "a1", title |-> "T1", category |-> <<tech, ai>>,
            country |-> <<us>>, pubDate |-> "2024-01-02 10:00:00"]
ArtSparse == [article_id |-> "a1", country |-> <<uk>>, datatype |-> blog]
ArtOther == [article_id |-> "a2", title |-> "T2", category |-> <<tech>>,
             country |-> <<fr>>, pubDate |-> "2024-01-01 10:00:00"]

ArtBadDate == [article_id |-> "a2", title |-> "T2", pubDate |-> "yesterday"]

FeedPool == {ArtFull, ArtSparse, ArtOther, ArtBadDate}

Batches == UNION {[1..n -> FeedPool] : n \in 0..MaxBatch}

SeqBatches == UNION {[1..n -> FeedPool] : n \in 0..MaxSeqBatch}

\* new Date(s).  The feed's dates are "YYYY-MM-DD hh:mm:ss"; a timestamp is
\* modelled by its day number.
ParseDate(s) ==
    CASE s = "2024-01-01 10:00:00" -> 1
      [] s = "2024-01-02 10:00:00" -> 2
      [] s = "2024-01-03 10:00:00" -> 3
      [] OTHER -> InvalidDate

Has(art, k) == k \in DOMAIN art

\* The normalized record built for one feed article.
BuildDoc(art) ==
    [article_id |-> art.article_id,
     title |-> IF Has(art, "title") THEN art.title ELSE UNDEF,
     country |-> IF Has(art, "country") THEN art.country ELSE <<>>,
     category |-> IF Has(art, "category") THEN art.category ELSE <<>>,
     pubDate |-> IF Has(art, "pubDate") /\ art.pubDate # ""
                 THEN ParseDate(art.pubDate) ELSE NullDate,
     datatype |-> IF Has(art, "datatype") /\ art.datatype # <<>>
                  THEN art.datatype ELSE news]

DocKeys == {"article_id", "title", "country", "category", "pubDate", "datatype"}

\* ------------------------------------------------------- Article.updateOne
\* Mongoose casts the update { $set: doc }: a key whose value is undefined
\* is removed from $set.
SetKeys(doc) == {k \in DocKeys : ~(k = "title" /\ doc[k] = UNDEF)}

\* The cast fails (CastError) when the Date is invalid.
CastFails(doc) == doc.pubDate = InvalidDate

\* An update that adds to the country array ($push) instead of setting it.
ApplySetPush(old, doc, t) ==
    [k \in DocKeys \cup {"updatedAt"} |->
        IF k = "updatedAt" THEN t
        ELSE IF k = "country" THEN old[k] \o doc[k]
        ELSE IF k = "title" /\ doc[k] = UNDEF THEN old[k] ELSE doc[k]]

\* $set on a stored record, with the updatedAt that { timestamps: true } adds.
ApplySet(old, doc, t) ==
    [k \in DocKeys \cup {"updatedAt"} |->
        IF k = "updatedAt" THEN t
        ELSE IF k \in SetKeys(doc) THEN doc[k] ELSE old[k]]

\* The record an upsert creates: the filter's equality field, then $set.
Blank(id) ==
    [k \in DocKeys \cup {"updatedAt"} |->
        CASE k = "article_id" -> id
          [] k = "title" -> UNDEF
          [] k \in {"country", "category"} -> <<>>
          [] k = "pubDate" -> NullDate
          [] k = "datatype" -> <<>>
          [] OTHER -> 0]

NewRecord(doc, t) == ApplySet(Blank(doc.article_id), doc, t)

\* Positions of the records the filter { article_id: id } matches.
Matching(s, id) == {p \in 1..Len(s) : s[p].article_id = id}

FirstMatch(s, id) == CHOOSE p \in Matching(s, id) : \A q \in Matching(s, id) : p <= q

\* A collection without the unique index admits every insert.
IndexAdmitsAll(s, id) == TRUE

\* The unique index on article_id admits an insert of id.
IndexAdmits(s, id) == Matching(s, id) = {}

\* ------------------------------------------------------------ GET /api/news
\* page = 1, limit = 20 when the query string gives none.
DefaultPage == 1
DefaultLimit == 20

\* req.query: a parameter the request does not give is not in its DOMAIN.
\* A parameter that is given is a string.
Truthy(query, k) == k \in DOMAIN query /\ query[k] # <<>>

\* s.split(",").map((c) => c.trim().toLowerCase())
Terms(s) ==
    LET parts == Split(s, ",")
    IN  [i \in 1..Len(parts) |-> ToLowerCase(Trim(parts[i]))]

\* The filter object; a key is set only for a truthy parameter.
NewsFilter(query) ==
    [k \in {k \in {"country", "category"} : Truthy(query, k)} |-> Terms(query[k])]

\* { $in: list } on an array field: some element of the field is in list.
MatchIn(values, list) == \E i \in 1..Len(values) : values[i] \in Range(list)

\* $in where $all is meant.
MatchAllAsIn(values, list) == \E j \in 1..Len(list) : list[j] \in Range(values)

\* { $all: list } on an array field: every element of list is in the field.
MatchAll(values, list) == \A j \in 1..Len(list) : list[j] \in Range(values)

Matches(rec, filter) ==
    /\ "country" \in DOMAIN filter => MatchIn(rec.country, filter.country)
    /\ "category" \in DOMAIN filter => MatchAll(rec.category, filter.category)

Matched(s, filter) == {p \in 1..Len(s) : Matches(s[p], filter)}

\* Article.countDocuments(filter)
CountDocuments(s, filter) == Cardinality(Matched(s, filter))

\* .sort({ pubDate: -1 }): the orders of the matched records the store may
\* return (records of equal pubDate come in any order).
SortedOrders(s, filter) ==
    LET M == Matched(s, filter)
        n == Cardinality(M)
    IN  {o \in [1..n -> M] :
            /\ \A i, j \in 1..n : i # j => o[i] # o[j]
            /\ \A i, j \in 1..n : i < j => s[o[i]].pubDate >= s[o[j]].pubDate}

\* parseInt(page), parseInt(limit)
PageNumber(query) ==
    IF "page" \in DOMAIN query THEN ParseInt(query.page) ELSE DefaultPage

LimitNumber(query) ==
    IF "limit" \in DOMAIN query THEN ParseInt(query.limit) ELSE DefaultLimit

\* A skip that counts pages from 0.
SkipFromZero(query) == Times(PageNumber(query), LimitNumber(query))

\* const skip = (parseInt(page) - 1) * parseInt(limit);
Skip(query) == Times(Minus(PageNumber(query), 1), LimitNumber(query))

\* .skip(skip).limit(limit) of an ordered result, skip >= 0: limit 0 is no
\* limit and a negative limit is its absolute value.
Slice(o, skip, limit) ==
    LET cap == IF limit = 0 THEN Len(o) ELSE IF limit < 0 THEN 0 - limit ELSE limit
        last == IF skip + cap < Len(o) THEN skip + cap ELSE Len(o)
    IN  SubSeq(o, skip + 1, last)

\* The store rejects a negative skip.
SkipRejected(query) == Skip(query) # NaN /\ Skip(query) < 0

\* skip or limit is NaN.
PagingNaN(query) == Skip(query) = NaN \/ LimitNumber(query) = NaN

\* The page find() resolves to, for one order of the sorted result.
FindPage(s, o, query) ==
    LET page == IF PagingNaN(query) THEN o
                ELSE Slice(o, Skip(query), LimitNumber(query))
    IN  [i \in 1..Len(page) |-> s[page[i]]]

\* res.json({ success: true, total, page, totalPages, articles }); a
\* number that is not finite is null in the JSON text (NaN, here).
NewsBody(query, arts, count) ==
    [status |-> 200, json |-> TRUE, success |-> TRUE, total |-> count,
     page |-> PageNumber(query),
     totalPages |-> IF LimitNumber(query) = 0 THEN NaN
                    ELSE CeilDiv(count, LimitNumber(query)),
     articles |-> arts]

\* res.status(500).json({ success: false, error: err.message })
ErrorBody == [status |-> 500, json |-> TRUE, success |-> FALSE, error |-> "message"]

\* No response has been sent.
NoResponse == [status |-> 0]

\* Express's own answer to an error a handler passes on (express 5 passes a
\* rejected handler promise on): 500, not JSON.
DefaultErrorPage == [status |-> 500, json |-> FALSE]

\* ------------------------------------------------- GET /api/filters, status
\* .filter(Boolean).sort() of distinct values
SortedValues(S) ==
    LET V == S \ {<<>>}
        n == Cardinality(V)
    IN  CHOOSE o \in [1..n -> V] :
            \A i, j \in 1..n : i < j => StrLess(o[i], o[j])

\* Article.distinct(field), flattened
Distinct(s, field) ==
    IF field = "datatype" THEN {s[p].datatype : p \in 1..Len(s)}
    ELSE UNION {Range(s[p][field]) : p \in 1..Len(s)}

FiltersBody(s) ==
    [status |-> 200, json |-> TRUE, success |-> TRUE,
     countries |-> SortedValues(Distinct(s, "country")),
     categories |-> SortedValues(Distinct(s, "category")),
     datatypes |-> SortedValues(Distinct(s, "datatype"))]

\* latest?.pubDate || null, latest the first record of one sorted order
StatusBody(s, o, ready) ==
    [status |-> 200, json |-> TRUE, success |-> TRUE,
     totalArticles |-> Len(s),
     latestArticle |-> IF Len(o) = 0 THEN NullDate ELSE s[o[1]].pubDate,
     dbStatus |-> IF ready = 1 THEN "connected" ELSE "disconnected"]

\* ---------------------------------------------------------- request inputs
ArtThird == [article_id |-> "a3", title |-> "T3", category |-> <<ai>>,
             country |-> <<uk, us>>, pubDate |-> "2024-01-02 10:00:00"]
ArtUndated == [article_id |-> "a4", title |-> "T4", country |-> <<fr>>]

\* Articles of the stores the read API is checked on.
ApiArticles == <<ArtFull, ArtOther, ArtThird, ArtUndated>>

\* The stores ingestion leaves: the first n of ApiArticles, each upserted
\* once.
ApiStores ==
    {[i \in 1..n |-> NewRecord(BuildDoc(ApiArticles[i]), 0)] :
        n \in 0..Len(ApiArticles)}

CountryInputs == {<<"u", "s", ",", "u", "k">>, <<"U", "S">>,
                  <<" ", "u", "s", " ", ",", "f", "r">>, <<>>}
CategoryInputs == {<<"t", "e", "c", "h", ",", "a", "i">>, <<"T", "e", "c", "h">>,
                   <<"a", "i", ",">>}
PageInputs == {<<"1">>, <<"2">>, <<"3">>, <<"0">>, <<"a", "b", "c">>, <<"2", "x">>}
LimitInputs == {<<"1">>, <<"2">>, <<"t", "e", "n">>}

\* Marks a parameter the request does not give.
Absent == <<"absent">>

\* The query strings of the requests.
Queries ==
    {[k \in {k \in {"country", "category", "page", "limit"} : f[k] # Absent} |-> f[k]] :
        f \in [country : CountryInputs \cup {Absent},
               category : CategoryInputs \cup {Absent},
               page : PageInputs \cup {Absent},
               limit : LimitInputs \cup {Absent}]}

VARIABLES
    store,      \* the Article collection, in insertion order
    now,        \* the clock, in milliseconds
    pc,         \* per run: "idle", "fetch", "upsert", "insert", "done"
    articles,   \* per run: the fetched results
    idx,        \* per run: position in the for loop
    inserted,   \* per run: counter
    updated,    \* per run: counter
    written,    \* per run: positions of the batch this run has written
    outcome,    \* per run: how the run ended
    crashed,    \* a rejected promise was left unhandled and ended the process
    readyState, \* mongoose.connection.readyState: 1 connected, 0 disconnected
    hpc,        \* the request handler: "idle", "reading", "done"
    req,        \* the request being handled: its path and query
    got,        \* GET /api/news: the reads of Promise.all that have resolved
    found,      \* GET /api/news: what find() resolved to
    total,      \* GET /api/news: what countDocuments() resolved to
    dbError,    \* the store failed the request
    res,        \* the response sent
    hist        \* the run before the current one: batch, outcome, store left

ingest == <<store, now, pc, articles, idx, inserted, updated, written, outcome>>

api == <<readyState, hpc, req, got, found, total, dbError, res>>

vars == <<ingest, crashed, api, hist>>

\* ------------------------------------------------------ fetchAndStoreNews
\* What Article.updateOne resolves to.
Result(upserted, modified) == [upsertedCount |-> upserted, modifiedCount |-> modified]

\* if (result.upsertedCount) inserted++; else if (result.modifiedCount) updated++;
CountInserted(n, result) == IF result.upsertedCount # 0 THEN n + 1 ELSE n

\* Counting every upsert that inserted nothing as an update.
CountUpdatedMatched(n, result) == IF result.upsertedCount # 0 THEN n ELSE n + 1

CountUpdated(n, result) ==
    IF result.upsertedCount # 0 THEN n
    ELSE IF result.modifiedCount # 0 THEN n + 1 ELSE n

\* A catch block that throws again: the promise of fetchAndStoreNews
\* rejects, and no caller handles it.
CatchRethrowsAlways == TRUE

\* The catch block logs the error; it does not throw again.
CatchRethrows == FALSE

\* A try block inside the for loop: the loop goes on after a failure.
CatchAndContinue(r, how) ==
    /\ pc' = [pc EXCEPT ![r] = IF idx[r] >= Len(articles[r]) THEN "done" ELSE "upsert"]
    /\ idx' = [idx EXCEPT ![r] = IF pc[r] = "fetch" THEN @ ELSE @ + 1]
    /\ outcome' = [outcome EXCEPT ![r] = how]
    /\ crashed' = FALSE
    /\ UNCHANGED <<store, inserted, updated, written>>

\* An exception inside the try block of run r: the for loop is left, and
\* the run ends in the catch block.
Catch(r, how) ==
    /\ pc' = [pc EXCEPT ![r] = "done"]
    /\ outcome' = [outcome EXCEPT ![r] = how]
    /\ crashed' = CatchRethrows
    /\ UNCHANGED <<store, idx, inserted, updated, written>>

\* The for loop goes on to the next article, or the run logs its summary.
NextArticle(r) ==
    /\ written' = [written EXCEPT ![r] = @ \cup {idx[r]}]
    /\ idx' = [idx EXCEPT ![r] = @ + 1]
    /\ IF idx[r] = Len(articles[r])
       THEN /\ pc' = [pc EXCEPT ![r] = "done"]
            /\ outcome' = [outcome EXCEPT ![r] = "ok"]
       ELSE /\ pc' = [pc EXCEPT ![r] = "upsert"]
            /\ UNCHANGED outcome
    /\ UNCHANGED crashed

\* updateOne finds a record with the article_id and applies $set to it.
UpdateMatched(r, doc) ==
    LET p == FirstMatch(store, doc.article_id)
        new == ApplySet(store[p], doc, now)
        result == Result(0, IF new # store[p] THEN 1 ELSE 0)
    IN  /\ store' = [store EXCEPT ![p] = new]
        /\ inserted' = [inserted EXCEPT ![r] = CountInserted(@, result)]
        /\ updated' = [updated EXCEPT ![r] = CountUpdated(@, result)]
        /\ NextArticle(r)

\* updateOne found no record and inserts one.
UpdateUpserted(r, doc) ==
    LET result == Result(1, 0)
    IN  /\ store' = Append(store, NewRecord(doc, now))
        /\ inserted' = [inserted EXCEPT ![r] = CountInserted(@, result)]
        /\ updated' = [updated EXCEPT ![r] = CountUpdated(@, result)]
        /\ NextArticle(r)

\* cron.schedule's callback, every 6 hours (and any later firing).
CronTrigger(r) ==
    /\ ~crashed
    /\ pc[r] \in {"idle", "done"}
    /\ pc' = [pc EXCEPT ![r] = "fetch"]
    /\ articles' = [articles EXCEPT ![r] = <<>>]
    /\ idx' = [idx EXCEPT ![r] = 0]
    /\ inserted' = [inserted EXCEPT ![r] = 0]
    /\ updated' = [updated EXCEPT ![r] = 0]
    /\ written' = [written EXCEPT ![r] = {}]
    /\ outcome' = [outcome EXCEPT ![r] = "none"]
    /\ UNCHANGED <<store, now, crashed>>

\* axios.get rejects: a network error or a non-2xx error body.
FetchFails(r) ==
    /\ ~crashed
    /\ pc[r] = "fetch"
    /\ Catch(r, "fetch_error")
    /\ UNCHANGED <<now, articles>>

\* axios.get resolves; articles = response.data?.results || [].
FetchFrom(r, feed) ==
    /\ ~crashed
    /\ pc[r] = "fetch"
    /\ \E b \in feed :
         /\ articles' = [articles EXCEPT ![r] = b]
         /\ IF Len(b) = 0
            THEN /\ pc' = [pc EXCEPT ![r] = "done"]
                 /\ outcome' = [outcome EXCEPT ![r] = "empty"]
                 /\ UNCHANGED idx
            ELSE /\ pc' = [pc EXCEPT ![r] = "upsert"]
                 /\ idx' = [idx EXCEPT ![r] = 1]
                 /\ UNCHANGED outcome
    /\ UNCHANGED <<store, now, inserted, updated, written, crashed>>

FetchOk(r) == FetchFrom(r, Batches)

\* await Article.updateOne(...): the update is cast and the store looks for
\* a record with the article_id.
UpdateOne(r) ==
    /\ ~crashed
    /\ pc[r] = "upsert"
    /\ LET doc == BuildDoc(articles[r][idx[r]])
       IN  \/ /\ CastFails(doc)
              /\ Catch(r, "upsert_error")
           \/ /\ ~CastFails(doc)
              /\ Catch(r, "upsert_error")
           \/ /\ ~CastFails(doc)
              /\ Matching(store, doc.article_id) # {}
              /\ UpdateMatched(r, doc)
           \/ /\ ~CastFails(doc)
              /\ Matching(store, doc.article_id) = {}
              /\ pc' = [pc EXCEPT ![r] = "insert"]
              /\ UNCHANGED <<store, idx, inserted, updated, written, outcome, crashed>>
    /\ UNCHANGED <<now, articles>>

\* The store, having found no record, inserts one under the unique index
\* on article_id.  When another upsert inserted the article_id meanwhile,
\* the store either retries the upsert as an update or rejects it with a
\* duplicate-key error.
UpsertInsert(r) ==
    /\ ~crashed
    /\ pc[r] = "insert"
    /\ LET doc == BuildDoc(articles[r][idx[r]])
       IN  \/ /\ IndexAdmits(store, doc.article_id)
              /\ UpdateUpserted(r, doc)
           \/ /\ ~IndexAdmits(store, doc.article_id)
              /\ UpdateMatched(r, doc)
           \/ /\ ~IndexAdmits(store, doc.article_id)
              /\ Catch(r, "upsert_error")
    /\ UNCHANGED <<now, articles>>

\* Time passes.
Tick ==
    /\ now < MaxClock
    /\ now' = now + 1
    /\ UNCHANGED <<store, pc, articles, idx, inserted, updated, written, outcome,
                   crashed>>


\* ----------------------------------------------------------- the read API
\* A request arrives at GET /api/news: the filter is built and find() and
\* countDocuments() are issued together.
NewsRequestFrom(queries) ==
    /\ ~crashed
    /\ hpc \in {"idle", "done"}
    /\ \E q \in queries : req' = [path |-> "/api/news", query |-> q]
    /\ hpc' = "reading"
    /\ got' = {}
    /\ found' = <<>>
    /\ total' = 0
    /\ dbError' = FALSE
    /\ res' = NoResponse
    /\ UNCHANGED <<readyState, crashed>>

NewsRequest == NewsRequestFrom(Queries)

\* The catch block of GET /api/news.
NewsCatch(db) ==
    /\ hpc' = "done"
    /\ res' = ErrorBody
    /\ dbError' = db
    /\ UNCHANGED <<got, found, total>>

\* Promise.all resolves once both reads have: the response is sent.
NewsSettle(arts, count) ==
    IF got' = {"find", "count"}
    THEN /\ hpc' = "done"
         /\ res' = NewsBody(req.query, arts, count)
    ELSE UNCHANGED <<hpc, res>>

\* Article.find(filter).sort().skip().limit().lean() resolves or rejects.
NewsFind ==
    /\ ~crashed
    /\ hpc = "reading"
    /\ "find" \notin got
    /\ \/ NewsCatch(TRUE)
       \/ /\ SkipRejected(req.query)
          /\ NewsCatch(FALSE)
       \/ /\ PagingNaN(req.query)
          /\ NewsCatch(FALSE)
       \/ /\ readyState = 1
          /\ ~SkipRejected(req.query)
          /\ \E o \in SortedOrders(store, NewsFilter(req.query)) :
                found' = FindPage(store, o, req.query)
          /\ got' = got \cup {"find"}
          /\ NewsSettle(found', total)
          /\ UNCHANGED <<total, dbError>>
    /\ UNCHANGED <<readyState, req, crashed>>

\* Article.countDocuments(filter) resolves or rejects.
NewsCount ==
    /\ ~crashed
    /\ hpc = "reading"
    /\ "count" \notin got
    /\ \/ NewsCatch(TRUE)
       \/ /\ readyState = 1
          /\ total' = CountDocuments(store, NewsFilter(req.query))
          /\ got' = got \cup {"count"}
          /\ NewsSettle(found, total')
          /\ UNCHANGED <<found, dbError>>
    /\ UNCHANGED <<readyState, req, crashed>>

\* GET /api/filters
FiltersHandler ==
    /\ ~crashed
    /\ hpc \in {"idle", "done"}
    /\ req' = [path |-> "/api/filters", query |-> <<>>]
    /\ hpc' = "done"
    /\ \/ /\ dbError' = TRUE
          /\ res' = ErrorBody
       \/ /\ readyState = 1
          /\ dbError' = FALSE
          /\ res' = FiltersBody(store)
    /\ got' = {}
    /\ found' = <<>>
    /\ total' = 0
    /\ UNCHANGED <<readyState, crashed>>

\* GET /api/status.  The handler has no try block: when a read rejects, the
\* handler's promise rejects.  Express 4 leaves it unhandled: no response is
\* sent, and the runtime may end the process; express 5 answers with its
\* default error page.
StatusHandler ==
    /\ ~crashed
    /\ hpc \in {"idle", "done"}
    /\ req' = [path |-> "/api/status", query |-> <<>>]
    /\ hpc' = "done"
    /\ \/ /\ dbError' = TRUE
          /\ \/ res' = NoResponse /\ crashed' \in BOOLEAN
             \/ res' = DefaultErrorPage /\ crashed' = FALSE
       \/ /\ readyState = 1
          /\ dbError' = FALSE
          /\ \E o \in SortedOrders(store, NewsFilter(<<>>)) :
                res' = StatusBody(store, o, readyState)
          /\ crashed' = FALSE
    /\ got' = {}
    /\ found' = <<>>
    /\ total' = 0
    /\ UNCHANGED readyState

\* The connection to the store is lost or comes back.
ConnectionChange ==
    /\ ~crashed
    /\ readyState' = 1 - readyState
    /\ UNCHANGED <<hpc, req, got, found, total, dbError, res, crashed>>

\* ---------------------------------------------------------- specifications
\* The state once the module has loaded and the store is connected:
\* fetchAndStoreNews() has been called once and awaits the feed; the store
\* holds what earlier processes left.
InitWith(s) ==
    /\ store = s
    /\ now = 0
    /\ pc = [r \in Runs |-> IF r = 1 THEN "fetch" ELSE "idle"]
    /\ articles = [r \in Runs |-> <<>>]
    /\ idx = [r \in Runs |-> 0]
    /\ inserted = [r \in Runs |-> 0]
    /\ updated = [r \in Runs |-> 0]
    /\ written = [r \in Runs |-> {}]
    /\ outcome = [r \in Runs |-> "none"]
    /\ crashed = FALSE
    /\ readyState = 1
    /\ hpc = "idle"
    /\ req = [path |-> "", query |-> <<>>]
    /\ got = {}
    /\ found = <<>>
    /\ total = 0
    /\ dbError = FALSE
    /\ res = NoResponse
    /\ hist = <<>>

Init == InitWith(<<>>)

\* Ingestion: the runs of fetchAndStoreNews, overlapping freely.
Next ==
    \/ \E r \in Runs : CronTrigger(r) /\ UNCHANGED <<api, hist>>
    \/ \E r \in Runs : FetchFails(r) /\ UNCHANGED <<api, hist>>
    \/ \E r \in Runs : FetchOk(r) /\ UNCHANGED <<api, hist>>
    \/ \E r \in Runs : UpdateOne(r) /\ UNCHANGED <<api, hist>>
    \/ \E r \in Runs : UpsertInsert(r) /\ UNCHANGED <<api, hist>>
    \/ Tick /\ UNCHANGED <<api, hist>>

Spec == Init /\ [][Next]_vars

\* Runs in sequence: each of the cron trigger's runs starts when the one
\* before it has finished, and hist keeps what that one fetched and left.
Snapshot(r) ==
    [articles |-> articles[r], ok |-> outcome[r] \in {"ok", "empty"}, store |-> store]

SeqNext ==
    \/ CronTrigger(1) /\ hist' = <<Snapshot(1)>> /\ UNCHANGED api
    \/ FetchFails(1) /\ UNCHANGED <<api, hist>>
    \/ FetchFrom(1, SeqBatches) /\ UNCHANGED <<api, hist>>
    \/ UpdateOne(1) /\ UNCHANGED <<api, hist>>
    \/ UpsertInsert(1) /\ UNCHANGED <<api, hist>>
    \/ Tick /\ UNCHANGED <<api, hist>>

SpecSeq == Init /\ [][SeqNext]_vars

\* The read API over a quiescent store: no run writes while requests are
\* handled.
ApiInit == \E s \in ApiStores : InitWith(s)

ApiNext ==
    \/ NewsRequest /\ UNCHANGED <<ingest, hist>>
    \/ NewsFind /\ UNCHANGED <<ingest, hist>>
    \/ NewsCount /\ UNCHANGED <<ingest, hist>>
    \/ FiltersHandler /\ UNCHANGED <<ingest, hist>>
    \/ StatusHandler /\ UNCHANGED <<ingest, hist>>
    \/ ConnectionChange /\ UNCHANGED <<ingest, hist>>

SpecApi == ApiInit /\ [][ApiNext]_vars

\* Two overlapping runs: the cron trigger fires while the run started at
\* module load is still in flight, and each of the two runs once.
OverlapTrigger ==
    /\ pc[2] = "idle"
    /\ pc[1] \in {"fetch", "upsert", "insert"}
    /\ CronTrigger(2)

OverlapNext ==
    \/ OverlapTrigger /\ UNCHANGED <<api, hist>>
    \/ \E r \in Runs : FetchFails(r) /\ UNCHANGED <<api, hist>>
    \/ \E r \in Runs : FetchOk(r) /\ UNCHANGED <<api, hist>>
    \/ \E r \in Runs : UpdateOne(r) /\ UNCHANGED <<api, hist>>
    \/ \E r \in Runs : UpsertInsert(r) /\ UNCHANGED <<api, hist>>
    \/ Tick /\ UNCHANGED <<api, hist>>

SpecOverlap == Init /\ [][OverlapNext]_vars

\* The read API while a run writes: requests to GET /api/news are handled
\* while fetchAndStoreNews upserts, its steps and the two reads of a request
\* interleaving freely.
LiveQueries ==
    {q \in Queries :
        /\ "category" \notin DOMAIN q
        /\ "page" \notin DOMAIN q
        /\ "country" \in DOMAIN q => q.country = <<"u", "s", ",", "u", "k">>
        /\ "limit" \in DOMAIN q => q.limit = <<"1">>}

LiveNext ==
    \/ CronTrigger(1) /\ UNCHANGED <<api, hist>>
    \/ FetchFails(1) /\ UNCHANGED <<api, hist>>
    \/ FetchOk(1) /\ UNCHANGED <<api, hist>>
    \/ UpdateOne(1) /\ UNCHANGED <<api, hist>>
    \/ UpsertInsert(1) /\ UNCHANGED <<api, hist>>
    \/ NewsRequestFrom(LiveQueries) /\ UNCHANGED <<ingest, hist>>
    \/ NewsFind /\ UNCHANGED <<ingest, hist>>
    \/ NewsCount /\ UNCHANGED <<ingest, hist>>

SpecLive == Init /\ [][LiveNext]_vars

\* ------------------------------------------------------------------ claims
\* The fields of a record that come from the feed (updatedAt is the store's).
Fields(rec) == [k \in DocKeys |-> rec[k]]

Proj(s) == [p \in 1..Len(s) |-> Fields(s[p])]

\* The article run r is upserting, normalized.
DocOf(r) == BuildDoc(articles[r][idx[r]])

\* This step completes an upsert of run r.
Wrote(r) == pc[r] \in {"upsert", "insert"} /\ written'[r] # written[r]

\* C1: in every reachable state the store holds at most one record per
\* article_id, whatever runs have been triggered, however they overlap and
\* whatever article_ids their batches repeat.
C1_OneRecordPerArticleId ==
    \A p, q \in 1..Len(store) : store[p].article_id = store[q].article_id => p = q

\* C1 witness: two runs raced for the same new article_id; the second found
\* no record, and by the time it inserts the first has created the record.
C1_Witness ==
    \E r \in Runs :
        /\ pc[r] = "insert"
        /\ ~IndexAdmits(store, DocOf(r).article_id)
        /\ Len(store) = 2

\* C2, as claimed: an upsert of an article whose article_id has a record
\* replaces every field of the record with the new payload's value, a field
\* the new payload omits included: nothing of the previous version survives.
C2_AllFieldsReplaced ==
    [][\A r \in Runs :
          (Wrote(r) /\ Matching(store, DocOf(r).article_id) # {}) =>
              LET p == FirstMatch(store, DocOf(r).article_id)
              IN  \A k \in DocKeys : store'[p][k] = DocOf(r)[k]]_vars

\* C3: a run that fetches the batch the run before it fetched, both running
\* to the end of the batch, leaves the article_ids and the article fields
\* of the store as that run left them.
C3_SecondRunChangesNothing ==
    (/\ pc[1] = "done"
     /\ outcome[1] \in {"ok", "empty"}
     /\ hist # <<>>
     /\ hist[1].ok
     /\ hist[1].articles = articles[1])
    => Proj(store) = Proj(hist[1].store)

\* C3 witness: the batch upserts a1 twice, with different payloads, and a2;
\* the second run of it has finished and counted its upserts as updates.
C3_Witness ==
    /\ pc[1] = "done"
    /\ outcome[1] = "ok"
    /\ hist # <<>>
    /\ hist[1].ok
    /\ hist[1].articles = articles[1]
    /\ articles[1] = <<ArtFull, ArtSparse, ArtOther>>
    /\ updated[1] = 3

\* The stored record p already holds every value the payload sets.
SamePayload(p, doc) == \A k \in SetKeys(doc) : store[p][k] = doc[k]

\* C4, as claimed: the first upsert of an article_id the store does not
\* hold increments inserted; an upsert of an article the store holds with
\* an identical payload increments updated, and not inserted.
C4_SecondUpsertCountsUpdated ==
    [][\A r \in Runs : Wrote(r) =>
          LET id == DocOf(r).article_id
          IN  /\ Matching(store, id) = {} =>
                    inserted'[r] = inserted[r] + 1 /\ updated'[r] = updated[r]
              /\ (Matching(store, id) # {}
                    /\ SamePayload(FirstMatch(store, id), DocOf(r))) =>
                    inserted'[r] = inserted[r] /\ updated'[r] = updated[r] + 1]_vars

\* C4, amended: the first upsert of an article_id the store does not hold
\* increments inserted; an upsert of an article the store holds with an
\* identical payload never increments inserted, and increments updated
\* exactly when its updatedAt stamp differs from the stored one (it is the
\* only field the upsert changes); stamped in the same millisecond, the
\* upsert moves neither counter.
C4_CountsFollowModification ==
    [][\A r \in Runs : Wrote(r) =>
          LET id == DocOf(r).article_id
          IN  /\ Matching(store, id) = {} =>
                    inserted'[r] = inserted[r] + 1 /\ updated'[r] = updated[r]
              /\ (Matching(store, id) # {}
                    /\ SamePayload(FirstMatch(store, id), DocOf(r))) =>
                    /\ inserted'[r] = inserted[r]
                    /\ updated'[r] = updated[r] +
                          (IF store[FirstMatch(store, id)].updatedAt # now
                           THEN 1 ELSE 0)]_vars

\* C4 witness: a run upserted the same payload twice, a millisecond apart:
\* one insert, one update.
C4_Witness ==
    \E r \in Runs :
        /\ articles[r] = <<ArtFull, ArtFull>>
        /\ pc[r] = "done"
        /\ inserted[r] = 1
        /\ updated[r] = 1

\* The run before the current one failed to fetch.
FetchFailedBefore == hist # <<>> /\ ~hist[1].ok /\ hist[1].articles = <<>>

\* C5: a run whose feed call fails writes nothing (the store is as it was
\* when the run was triggered), ends without an unhandled rejection, and
\* leaves the trigger able to start the next run, which can fetch.
C5_FetchFailureIsHarmless ==
    /\ [][(pc[1] = "fetch" /\ outcome'[1] = "fetch_error") =>
             (store' = store /\ pc'[1] = "done" /\ ~crashed')]_vars
    /\ []((pc[1] = "done" /\ outcome[1] = "fetch_error") =>
             /\ ~crashed
             /\ hist # <<>> => store = hist[1].store
             /\ ENABLED CronTrigger(1))
    /\ []((FetchFailedBefore /\ pc[1] = "fetch") => ENABLED FetchOk(1))

\* C5 witness: the run after a failed fetch has fetched a batch and
\* upserted all of it.
C5_Witness ==
    /\ FetchFailedBefore
    /\ pc[1] = "done"
    /\ outcome[1] = "ok"
    /\ inserted[1] = 2
    /\ Len(store) = 2

\* C10: when the upsert of the k-th article of a batch throws, the run ends
\* without an unhandled rejection, having written articles 1..k-1 and no
\* other; their records are in the store.
C10_FailedUpsertAbortsBatch ==
    (pc[1] = "done" /\ outcome[1] = "upsert_error") =>
        /\ ~crashed
        /\ written[1] = 1..(idx[1] - 1)
        /\ \A j \in 1..(idx[1] - 1) :
              \E p \in 1..Len(store) :
                  /\ store[p].article_id = articles[1][j].article_id
                  /\ SamePayload(p, BuildDoc(articles[1][j]))
                     \/ \E i \in (j + 1)..(idx[1] - 1) :
                           articles[1][i].article_id = articles[1][j].article_id

\* C10 witness: the second of three upserts threw; the first article is in
\* the store and the third is not.
C10_Witness ==
    /\ pc[1] = "done"
    /\ outcome[1] = "upsert_error"
    /\ idx[1] = 2
    /\ articles[1] = <<ArtFull, ArtBadDate, ArtOther>>
    /\ Proj(store) = <<BuildDoc(ArtFull)>>

\* A response to GET /api/news has been sent and the store did not fail.
NewsAnswered == hpc = "done" /\ req.path = "/api/news" /\ ~dbError

\* C6, as claimed: a page or limit that is no number never fails the
\* request; the handler answers with success, computed with page 1 in place
\* of the bad page and limit 20 in place of the bad limit.
C6_BadPagingFallsBackToDefaults ==
    (NewsAnswered /\ (PageNumber(req.query) = NaN \/ LimitNumber(req.query) = NaN)) =>
        LET page == IF PageNumber(req.query) = NaN THEN DefaultPage
                    ELSE PageNumber(req.query)
            limit == IF LimitNumber(req.query) = NaN THEN DefaultLimit
                     ELSE LimitNumber(req.query)
        IN  /\ res.status = 200
            /\ res.success
            /\ res.page = page
            /\ res.totalPages = CeilDiv(res.total, limit)
            /\ Len(res.articles) <= limit

\* C7, as claimed: whichever endpoint is handling the request, a failure of
\* the store ends in a response, and the response is the 500 JSON object
\* { success: false, error }.
C7_StoreFailureAnswered500 ==
    (hpc = "done" /\ dbError) => res = ErrorBody

\* The matched records dated after rec, and dated rec's date or after.
Newer(rec) ==
    {p \in Matched(store, NewsFilter(req.query)) : store[p].pubDate > rec.pubDate}

NotOlder(rec) ==
    {p \in Matched(store, NewsFilter(req.query)) : store[p].pubDate >= rec.pubDate}

\* C8: for page >= 1 and limit >= 1 over a quiescent store, the response
\* holds the records at positions (page-1)*limit+1 .. (page-1)*limit+limit
\* of the matching records in descending pubDate order (records of one
\* pubDate in any order), total is the number of matching records and
\* totalPages is ceil(total / limit).
C8_PageOfSortedMatches ==
    (NewsAnswered /\ PageNumber(req.query) >= 1 /\ LimitNumber(req.query) >= 1) =>
        LET page == PageNumber(req.query)
            limit == LimitNumber(req.query)
            first == (page - 1) * limit
            n == Cardinality(Matched(store, NewsFilter(req.query)))
            left == IF n > first THEN n - first ELSE 0
        IN  /\ res.status = 200
            /\ res.success
            /\ res.page = page
            /\ res.total = n
            /\ res.totalPages * limit >= n
            /\ (res.totalPages - 1) * limit < n
            /\ Len(res.articles) = IF left < limit THEN left ELSE limit
            /\ \A i \in 1..Len(res.articles) :
                  /\ \E p \in Matched(store, NewsFilter(req.query)) :
                        store[p] = res.articles[i]
                  /\ Cardinality(Newer(res.articles[i])) <= first + i - 1
                  /\ Cardinality(NotOlder(res.articles[i])) >= first + i
                  /\ \A j \in 1..Len(res.articles) :
                        i # j => res.articles[i] # res.articles[j]

\* C8 witness: GET /api/news?page=2&limit=1 over two records returned the
\* second-newest record and totalPages 2.
C8_Witness ==
    /\ hpc = "done"
    /\ Len(store) = 2
    /\ req = [path |-> "/api/news", query |-> [page |-> <<"2">>, limit |-> <<"1">>]]
    /\ res.status = 200
    /\ res.total = 2
    /\ res.totalPages = 2
    /\ Len(res.articles) = 1
    /\ res.articles[1].article_id = "a2"
    /\ \A p \in 1..2 : store[p].pubDate >= res.articles[1].pubDate

\* The values a comma-separated parameter lists, as written.
ListedAsWritten(s) == Range(Split(s, ","))

\* The values a comma-separated parameter lists, trimmed and lower-cased.
ListedNormalized(s) == {ToLowerCase(Trim(x)) : x \in Range(Split(s, ","))}

\* The claim's match of a record, for the listed values L(parameter).
ClaimMatch(rec, query, L(_)) ==
    /\ Truthy(query, "category") =>
          \A c \in L(query.category) : c \in Range(rec.category)
    /\ Truthy(query, "country") =>
          \E c \in L(query.country) : c \in Range(rec.country)

\* C9, as claimed: a record GET /api/news matches holds every listed
\* category and at least one listed country, and with no category given
\* every record that holds a listed country is matched; the values are
\* taken as the request writes them.
C9_FiltersAsWritten ==
    (NewsAnswered /\ res.status = 200) =>
        LET n == Cardinality({p \in 1..Len(store) :
                                ClaimMatch(store[p], req.query, ListedAsWritten)})
        IN  /\ res.total <= n
            /\ ~Truthy(req.query, "category") => res.total = n
            /\ \A i \in 1..Len(res.articles) :
                  ClaimMatch(res.articles[i], req.query, ListedAsWritten)

\* C9, amended: the same, each listed value trimmed and lower-cased before
\* it is compared with the record's values.
C9_FiltersNormalized ==
    (NewsAnswered /\ res.status = 200) =>
        LET n == Cardinality({p \in 1..Len(store) :
                                ClaimMatch(store[p], req.query, ListedNormalized)})
        IN  /\ res.total <= n
            /\ ~Truthy(req.query, "category") => res.total = n
            /\ \A i \in 1..Len(res.articles) :
                  ClaimMatch(res.articles[i], req.query, ListedNormalized)

\* C9 witness: with a1 in [tech, ai] and a2 in [tech] stored,
\* category=tech,ai returned a1 alone.
C9_Witness ==
    /\ hpc = "done"
    /\ Len(store) = 2
    /\ req = [path |-> "/api/news",
              query |-> [category |-> <<"t", "e", "c", "h", ",", "a", "i">>]]
    /\ res.status = 200
    /\ res.total = 1
    /\ Len(res.articles) = 1
    /\ res.articles[1].article_id = "a1"

\* The normalized records run r upserts for article_id a in its batch.
RunDocs(r, a) ==
    {BuildDoc(articles[r][i]) : i \in {j \in 1..Len(articles[r]) : articles[r][j].article_id = a}}

\* C11, as claimed: when two overlapping runs have both upserted the same
\* article_id, each once and with different payloads, and both have
\* finished, the stored record of that article_id equals in full the
\* normalized record of one of the two runs; it is never a mixture of
\* fields of both.
C11_RecordOfOneRun ==
    (/\ pc[1] = "done" /\ outcome[1] = "ok"
     /\ pc[2] = "done" /\ outcome[2] = "ok")
    => \A p \in 1..Len(store) :
          LET a == store[p].article_id
          IN  (/\ Cardinality(RunDocs(1, a)) = 1
               /\ Cardinality(RunDocs(2, a)) = 1
               /\ RunDocs(1, a) # RunDocs(2, a))
              => Fields(store[p]) \in RunDocs(1, a) \cup RunDocs(2, a)

\* C12, as claimed: every successful response of GET /api/news is
\* consistent, also when a run upserts while the request is handled: it
\* returns no more articles than the limit and no more than the total it
\* reports.
C12_ArticlesWithinTotal ==
    (NewsAnswered /\ res.status = 200 /\ LimitNumber(req.query) >= 1) =>
        /\ Len(res.articles) <= LimitNumber(req.query)
        /\ Len(res.articles) <= res.total
====
